---- MODULE Spec2Model ----
(***************************************************************************)
(* The collaborative-viewing relay of 3d-review-hub (socket.io handlers of *)
(* src/server.js and its variants).                                        *)
(*                                                                         *)
(* Two membership books exist side by side:                                *)
(*   rooms        the socket.io adapter's rooms (socket.join, the          *)
(*                automatic join of a socket to the room named by its own  *)
(*                id on connect, the automatic leave of every room on      *)
(*                disconnect); socket.to(r).emit reads this book;          *)
(*   activeRooms  the Map(roomId -> Set(socket.id)) the handlers keep.     *)
(* A handler runs to completion on the single event loop, so one action    *)
(* is one whole handler.                                                   *)
(*                                                                         *)
(* The HTTP side (projects, share links, the free plan's limit) is kept    *)
(* in db, now, res and inflight: SpecDb is the JSON-file server of         *)
(* src/server.js:1-386, SpecLink the PostgreSQL projects module of         *)
(* src/modules/projects.js. The relay and the HTTP side share no state.    *)
(***************************************************************************)
EXTENDS Bags, Naturals, FiniteSets, Sequences, TLC

\* Number of connections the transport accepts in a run.
MaxConns == 3
\* Number of distinct project ids clients use as room names.
MaxProjects == 2
\* Number of socket ids that clients use as room names (the ids of the
\* connections made first).
MaxKnownIds == 1
\* Number of client events (join-room, camera-update, annotation-add,
\* disconnect) handled in a run.
MaxEvents == 3
\* Number of client events handled in a run that keeps what every
\* connection was sent (SpecInbox).
MaxLogged == 2
\* Number of registered users.
MaxUsers == 1
\* The clock runs from 0 to MaxTime. Its unit is the expiresIn of the create
\* requests (the form's default of 24 hours).
MaxTime == 2
\* Number of createProject calls of the PostgreSQL module under way at once.
MaxInflight == 2
\* Number of share links (projects) created in a run that has passwords
\* (SpecLink).
MaxLinks == 2
\* The free plan's limit of active projects.
PlanLimit == 3
\* Number of project records the database holds in a run: enough to go one
\* past the limit.
MaxRecords == PlanLimit + 1

\* Cards in the portfolio, and items and folders in all its cards together.
MaxCards == 1
MaxContent == 2

VARIABLES
  status,       \* socket id -> "none" | "connected" | "disconnected"
  rooms,        \* socket.io adapter: room id -> set of socket ids
  activeRooms,  \* the Map: a function whose domain is the set of keys
  joined,       \* history: socket id -> room ids it has sent join-room for
  last,         \* the client event the relay handled last
  out,          \* the deliveries made while handling it
  nevents,      \* client events handled so far
  up,           \* the server process is running
  inbox,        \* history: socket id -> the relayed events the connection
                \* has been sent, oldest first (kept by SpecInbox only)
  db,           \* the database: database.json, or the users and projects
                \* tables of the PostgreSQL variants
  now,          \* the clock
  res,          \* the HTTP response sent last
  inflight      \* createProject calls of the PostgreSQL module that have
                \* counted the user's projects and not inserted yet (a bag)

\* The relay's variables and the HTTP server's: the two share no state.
relayVars ==
  <<status, rooms, activeRooms, joined, last, out, nevents, up, inbox>>

httpVars == <<db, now, res, inflight>>

vars == <<status, rooms, activeRooms, joined, last, out, nevents, up, inbox,
          db, now, res, inflight>>

\* socket.id: opaque, assigned by the transport at connect time, never reused.
SocketId(i) == <<"sid1", "sid2", "sid3", "sid4", "sid5", "sid6">>[i]
\* A project id, as the viewer page sends it in join-room.
ProjectId(i) == <<"proj1", "proj2", "proj3", "proj4", "proj5", "proj6">>[i]

\* A user id (a uuid in the code).
UserId(i) == <<"u1", "u2", "u3", "u4">>[i]

\* The email address the i-th registration form can carry.
Email(i) == <<"a@x", "b@x", "c@x", "d@x">>[i]

Sockets == {SocketId(i) : i \in 1..MaxConns}
ProjectIds == {ProjectId(i) : i \in 1..MaxProjects}

\* What a client may send as projectId: any string, so also a socket id
\* (socket ids reach clients in the userId field of every event).
KnownSocketIds == {SocketId(i) : i \in 1..MaxKnownIds} \cap Sockets
RoomIds == ProjectIds \cup KnownSocketIds

\* The rooms the adapter can hold: every name a client uses and every
\* socket's own room.
AdapterRooms == RoomIds \cup Sockets

\* The argument of an event that carries none.
NoData == [k \in {} |-> ""]

NoEvent ==
  [op |-> "none", conn |-> "", room |-> "", wasMember |-> FALSE, data |-> NoData]

\* activeRooms.has(p) ? activeRooms.get(p) : (no entry)
Members(p) == IF p \in DOMAIN activeRooms THEN activeRooms[p] ELSE {}

Init ==
  /\ status = [s \in Sockets |-> "none"]
  /\ rooms = [r \in AdapterRooms |-> {}]
  /\ activeRooms = [p \in {} |-> {}]
  /\ joined = [s \in Sockets |-> {}]
  /\ last = NoEvent
  /\ out = {}
  /\ nevents = 0
  /\ up = TRUE
  /\ inbox = [s \in Sockets |-> << >>]
  /\ db = [users |-> [i \in 1..MaxUsers |-> [id |-> UserId(i), email |-> Email(i),
                                            plan |-> "free"]],
           projects |-> << >>,
           portfolio |-> << >>]
  /\ now = 0
  /\ res = [route |-> "none", status |-> 0, body |-> ""]
  /\ inflight = EmptyBag

----------------------------------------------------------------------------
(* socket.io primitives, by their documented behaviour *)

\* socket.join(p): the adapter adds the socket to room p (a no-op if present).
SocketJoin(R, s, p) == [R EXCEPT ![p] = @ \cup {s}]

\* A transport that keeps a closed socket in its rooms.
LeaveNone(R, s) == R

\* On close the transport takes the socket out of every room (its own
\* included) before the 'disconnect' event reaches the handler.
LeaveAll(R, s) == [r \in DOMAIN R |-> R[r] \ {s}]

\* io.to(p).emit in place of socket.to(p).emit: the sender is not excepted.
BroadcastToAll(R, s, p) == IF p \in DOMAIN R THEN R[p] ELSE {}

\* A relay that serves only senders that are in the room.
BroadcastIfMember(R, s, p) ==
  IF p \in DOMAIN R /\ s \in R[p] THEN R[p] \ {s} ELSE {}

\* socket.to(p).emit(event, payload): one copy to every socket the adapter
\* holds in room p, except the sender; a name no socket joined is no room.
BroadcastTo(R, s, p) == IF p \in DOMAIN R THEN R[p] \ {s} ELSE {}

Emit(R, s, p, event, payload) ==
  {[to |-> m, event |-> event, room |-> p, payload |-> payload] :
     m \in BroadcastTo(R, s, p)}

----------------------------------------------------------------------------
(* The Map(roomId -> Set(socket.id)) *)

\* activeRooms.set(p, new Set()) without the has(p) test.
ResetRoom(M, p) == [k \in DOMAIN M \cup {p} |-> IF k = p THEN {} ELSE M[k]]

\* if (!activeRooms.has(p)) activeRooms.set(p, new Set())
EnsureRoom(M, p) ==
  IF p \in DOMAIN M THEN M
  ELSE [k \in DOMAIN M \cup {p} |-> IF k = p THEN {} ELSE M[k]]

\* activeRooms.get(p).add(id)
AddMember(M, p, id) == [M EXCEPT ![p] = @ \cup {id}]

\* A loop that treats every room as one the socket was in.
EveryRoom(M, id) == DOMAIN M

\* The rooms whose Set holds id: those for which users.delete(id) is true.
RoomsOf(M, id) == {k \in DOMAIN M : id \in M[k]}

\* A loop without the activeRooms.delete(roomId) of an emptied room.
RemoveKeepingEmpty(M, id) == [k \in DOMAIN M |-> M[k] \ {id}]

\* A disconnect handler that leaves the Map alone.
RemoveNowhere(M, id) == M

\* The disconnect loop over activeRooms.entries(): users.delete(id) in every
\* room, and activeRooms.delete(roomId) where that emptied the Set.
RemoveEverywhere(M, id) ==
  LET emptied == {k \in RoomsOf(M, id) : M[k] \ {id} = {}}
  IN  [k \in DOMAIN M \ emptied |-> M[k] \ {id}]

----------------------------------------------------------------------------
(* Client payloads *)

\* The handler's argument when the client emits the event without one.
Undefined == [undefined |-> TRUE]

\* data.k: reading a key the object lacks gives undefined.
Get(data, k) == IF k \in DOMAIN data THEN data[k] ELSE "undefined"

\* data.projectId on undefined (or null) throws a TypeError.
Throws(data) == data = Undefined

\* camera-update arguments: well formed for every room name, with a userId
\* key of the sender's choosing, without projectId, and none at all.
CameraPayloads ==
  {[projectId |-> p, position |-> "pos", rotation |-> "rot"] : p \in RoomIds}
  \cup {[projectId |-> p, position |-> "pos2", rotation |-> "rot2",
          userId |-> SocketId(1)] : p \in ProjectIds}
  \cup {[position |-> "pos", rotation |-> "rot"], Undefined}

AnnotationPayloads ==
  {[projectId |-> p, annotation |-> "note"] : p \in RoomIds}
  \cup {[annotation |-> "note"], Undefined}

\* { ...base, ...data }: the later spread wins on a shared key.
Spread(base, data) ==
  [k \in DOMAIN base \cup DOMAIN data |->
     IF k \in DOMAIN data THEN data[k] ELSE base[k]]

Handled(op, s, p, data) ==
  [op |-> op, conn |-> s, room |-> p, wasMember |-> s \in Members(p),
   data |-> data]

\* An exception thrown in a handler is caught nowhere: the process exits
\* (process.on('uncaughtException') of src/server.js:815-818 calls
\* process.exit(1), and without that handler node does the same). The other
\* variables keep what the memory held at that moment.
Crash(op, s, data) ==
  /\ up' = FALSE
  /\ out' = {}
  /\ last' = Handled(op, s, "undefined", data)
  /\ nevents' = nevents + 1
  /\ UNCHANGED <<status, rooms, activeRooms, joined>>

----------------------------------------------------------------------------
(* Handlers of src/server.js:329-362 *)

\* io.on('connection'): the transport assigns the next unused id and puts the
\* socket in the room named by that id.
Connect ==
  \E i \in 1..MaxConns : LET s == SocketId(i) IN
    /\ up
    /\ status[s] = "none"
    /\ \A j \in 1..(i - 1) : status[SocketId(j)] # "none"
    /\ status' = [status EXCEPT ![s] = "connected"]
    /\ rooms' = SocketJoin(rooms, s, s)
    /\ last' = [op |-> "connect", conn |-> s, room |-> s, wasMember |-> FALSE,
                 data |-> NoData]
    /\ out' = {}
    /\ UNCHANGED <<activeRooms, joined, nevents, up>>

JoinRoom(s, p) ==
  /\ up
  /\ status[s] = "connected"
  /\ nevents < MaxEvents
  /\ rooms' = SocketJoin(rooms, s, p)
  /\ activeRooms' = AddMember(EnsureRoom(activeRooms, p), p, s)
  /\ out' = Emit(rooms', s, p, "user-joined", [userId |-> s])
  /\ joined' = [joined EXCEPT ![s] = @ \cup {p}]
  /\ last' = Handled("join-room", s, p, NoData)
  /\ nevents' = nevents + 1
  /\ UNCHANGED <<status, up>>

\* An event built with position and rotation exchanged.
CameraUpdatedSwapped(s, data) ==
  [userId |-> s, position |-> Get(data, "rotation"),
   rotation |-> Get(data, "position")]

\* { userId: socket.id, position: data.position, rotation: data.rotation }
CameraUpdated(s, data) ==
  [userId |-> s, position |-> Get(data, "position"),
   rotation |-> Get(data, "rotation")]

\* { userId: socket.id, annotation: data.annotation }
AnnotationAdded(s, data) ==
  [userId |-> s, annotation |-> Get(data, "annotation")]

\* The effect of a handler that only relays.
Relay(op, s, data, event, payload) ==
  /\ out' = Emit(rooms, s, Get(data, "projectId"), event, payload)
  /\ last' = Handled(op, s, Get(data, "projectId"), data)
  /\ nevents' = nevents + 1
  /\ UNCHANGED <<status, rooms, activeRooms, joined, up>>

CameraUpdate(s, data) ==
  /\ up
  /\ status[s] = "connected"
  /\ nevents < MaxEvents
  /\ IF Throws(data)
       THEN Crash("camera-update", s, data)
       ELSE Relay("camera-update", s, data, "camera-updated",
                  CameraUpdated(s, data))

AnnotationAdd(s, data) ==
  /\ up
  /\ status[s] = "connected"
  /\ nevents < MaxEvents
  /\ IF Throws(data)
       THEN Crash("annotation-add", s, data)
       ELSE Relay("annotation-add", s, data, "annotation-added",
                  AnnotationAdded(s, data))

Disconnect(s) ==
  /\ up
  /\ status[s] = "connected"
  /\ nevents < MaxEvents
  /\ status' = [status EXCEPT ![s] = "disconnected"]
  /\ rooms' = LeaveAll(rooms, s)
  /\ activeRooms' = RemoveEverywhere(activeRooms, s)
  /\ out' = UNION {Emit(rooms', s, p, "user-left", [userId |-> s]) :
                     p \in RoomsOf(activeRooms, s)}
  /\ UNCHANGED <<joined, up>>
  /\ last' = [op |-> "disconnect", conn |-> s, room |-> s,
              wasMember |-> RoomsOf(activeRooms, s) # {}, data |-> NoData]
  /\ nevents' = nevents + 1

Next ==
  \/ Connect /\ UNCHANGED <<inbox, httpVars>>
  \/ \E s \in Sockets, p \in RoomIds :
       JoinRoom(s, p) /\ UNCHANGED <<inbox, httpVars>>
  \/ \E s \in Sockets, data \in CameraPayloads :
       CameraUpdate(s, data) /\ UNCHANGED <<inbox, httpVars>>
  \/ \E s \in Sockets, data \in AnnotationPayloads :
       AnnotationAdd(s, data) /\ UNCHANGED <<inbox, httpVars>>
  \/ \E s \in Sockets : Disconnect(s) /\ UNCHANGED <<inbox, httpVars>>

Spec == Init /\ [][Next]_vars

----------------------------------------------------------------------------
(* Handlers of src/unnamed/part_007:569-591 (the Map is named rooms there) *)

JoinRoomPart007(s, id) == JoinRoom(s, id)

\* { userId: socket.id, ...data }
CameraUpdatedPart007(s, data) == Spread([userId |-> s], data)

CameraUpdatePart007(s, data) ==
  /\ up
  /\ status[s] = "connected"
  /\ nevents < MaxEvents
  /\ IF Throws(data)
       THEN Crash("camera-update", s, data)
       ELSE Relay("camera-update", s, data, "camera-updated",
                  CameraUpdatedPart007(s, data))

AnnotationAddPart007(s, data) == AnnotationAdd(s, data)

\* if (users.delete(socket.id) && users.size === 0) rooms.delete(id): the
\* registry is cleaned, nothing is emitted.
DisconnectPart007(s) ==
  /\ up
  /\ status[s] = "connected"
  /\ nevents < MaxEvents
  /\ status' = [status EXCEPT ![s] = "disconnected"]
  /\ rooms' = LeaveAll(rooms, s)
  /\ activeRooms' = RemoveEverywhere(activeRooms, s)
  /\ out' = {}
  /\ UNCHANGED <<joined, up>>
  /\ last' = [op |-> "disconnect", conn |-> s, room |-> s,
              wasMember |-> RoomsOf(activeRooms, s) # {}, data |-> NoData]
  /\ nevents' = nevents + 1

NextPart007 ==
  \/ Connect /\ UNCHANGED <<inbox, httpVars>>
  \/ \E s \in Sockets, p \in RoomIds :
       JoinRoomPart007(s, p) /\ UNCHANGED <<inbox, httpVars>>
  \/ \E s \in Sockets, data \in CameraPayloads :
       CameraUpdatePart007(s, data) /\ UNCHANGED <<inbox, httpVars>>
  \/ \E s \in Sockets, data \in AnnotationPayloads :
       AnnotationAddPart007(s, data) /\ UNCHANGED <<inbox, httpVars>>
  \/ \E s \in Sockets : DisconnectPart007(s) /\ UNCHANGED <<inbox, httpVars>>

SpecPart007 == Init /\ [][NextPart007]_vars

----------------------------------------------------------------------------
(* The relay of src/server.js:329-362 with what each connection is sent kept
   in order. The server handles the events of one connection in the order
   the client emitted them and runs a handler to its end before the next
   event; emit(...) appends to the outbound buffer of each recipient, which
   the transport delivers in order. *)

RelayedEvents == {"camera-updated", "annotation-added"}

\* A buffer that hands the newest event to the recipient first.
ReceivedFirst(box, ds, s, n) ==
  [m \in DOMAIN box |->
     IF \E d \in ds : d.to = m /\ d.event \in RelayedEvents
       THEN LET d == CHOOSE d \in ds : d.to = m /\ d.event \in RelayedEvents
            IN  <<[event |-> d.event, room |-> d.room, from |-> s, n |-> n]>>
                  \o box[m]
       ELSE box[m]]

\* The buffers after the deliveries ds of the n-th client event, emitted by
\* connection s: each relayed event is appended to its recipient's buffer.
Received(box, ds, s, n) ==
  [m \in DOMAIN box |->
     IF \E d \in ds : d.to = m /\ d.event \in RelayedEvents
       THEN LET d == CHOOSE d \in ds : d.to = m /\ d.event \in RelayedEvents
            IN  Append(box[m],
                       [event |-> d.event, room |-> d.room, from |-> s,
                        n |-> n])
       ELSE box[m]]

Delivered == inbox' = Received(inbox, out', last'.conn, nevents')

\* The arguments the viewer page builds: every key present, none added.
ViewerCameraPayloads ==
  {d \in CameraPayloads : DOMAIN d = {"projectId", "position", "rotation"}}

ViewerAnnotationPayloads ==
  {d \in AnnotationPayloads : DOMAIN d = {"projectId", "annotation"}}

NextInbox ==
  \/ Connect /\ UNCHANGED <<inbox, httpVars>>
  \/ \E s \in Sockets, p \in RoomIds :
       /\ nevents < MaxLogged
       /\ JoinRoom(s, p) /\ Delivered /\ UNCHANGED httpVars
  \/ \E s \in Sockets, data \in ViewerCameraPayloads :
       /\ nevents < MaxLogged
       /\ CameraUpdate(s, data) /\ Delivered /\ UNCHANGED httpVars
  \/ \E s \in Sockets, data \in ViewerAnnotationPayloads :
       /\ nevents < MaxLogged
       /\ AnnotationAdd(s, data) /\ Delivered /\ UNCHANGED httpVars
  \/ \E s \in Sockets :
       /\ nevents < MaxLogged
       /\ Disconnect(s) /\ Delivered /\ UNCHANGED httpVars

SpecInbox == Init /\ [][NextInbox]_vars

----------------------------------------------------------------------------
(* The JSON-file HTTP server of src/server.js:1-386. Every handler below is
   synchronous: readDB, the change and writeDB happen in one turn of the
   event loop, so one action is one request. SpecDb creates projects without
   a password. *)

Users == {UserId(i) : i \in 1..MaxUsers}

\* req.session.userId of a request that carries no session.
NoSession == "none"

\* The password of a project ('' when the owner set none) and what a viewer
\* can put in ?password= ("undefined" when the query has none).
ProjectPasswords == {"", "secret"}
QueryPasswords == {"undefined", "secret", "wrong"}

\* What the multipart form of a create request holds.
Forms == {"ok", "no-file", "no-name"}

Response(route, code, body) == [route |-> route, status |-> code, body |-> body]

\* db.users.find(u => u.id === id): the index of the record, 0 for undefined.
FindUser(d, id) ==
  IF \E i \in DOMAIN d.users : d.users[i].id = id
    THEN CHOOSE i \in DOMAIN d.users : d.users[i].id = id
    ELSE 0

\* db.projects.find(p => p.id === id)
FindProject(d, id) ==
  IF \E i \in DOMAIN d.projects : d.projects[i].id = id
    THEN CHOOSE i \in DOMAIN d.projects : d.projects[i].id = id
    ELSE 0

\* db.projects.filter(p => p.userId === u && p.status === 'active')
ActiveProjects(d, u) ==
  {i \in DOMAIN d.projects :
     d.projects[i].userId = u /\ d.projects[i].status = "active"}

\* A limit test that lets one project too many through.
AtLimitOffByOne(d, i) ==
  d.users[i].plan = "free"
    /\ Cardinality(ActiveProjects(d, d.users[i].id)) > PlanLimit

\* user.plan === 'free' && activeProjects.length >= 3
AtLimit(d, i) ==
  d.users[i].plan = "free"
    /\ Cardinality(ActiveProjects(d, d.users[i].id)) >= PlanLimit

\* A status write that also takes a project that is not active back to
\* 'active'.
SetStatusToggle(d, i, st) ==
  [d EXCEPT !.projects[i].status = IF @ = "active" THEN st ELSE "active"]

\* The project with the given index gets the given status.
SetStatus(d, i, st) == [d EXCEPT !.projects[i].status = st]

\* A sweep that also expires the projects whose expiresAt is t itself.
CleanupExpiredInclusive(d, t) ==
  [d EXCEPT !.projects =
     [i \in DOMAIN d.projects |->
        IF d.projects[i].status = "active" /\ d.projects[i].expiresAt <= t
          THEN [d.projects[i] EXCEPT !.status = "expired"]
          ELSE d.projects[i]]]

\* cleanupExpiredProjects(): every active project whose expiresAt is before
\* t becomes 'expired'.
CleanupExpired(d, t) ==
  [d EXCEPT !.projects =
     [i \in DOMAIN d.projects |->
        IF d.projects[i].status = "active" /\ d.projects[i].expiresAt < t
          THEN [d.projects[i] EXCEPT !.status = "expired"]
          ELSE d.projects[i]]]

\* uuidv4(): an id no record has.
NewProjectId(d) == ProjectId(Len(d.projects) + 1)

\* db.projects.push(project)
\* db.projects.push(project), with expiresAt = Date.now() + expiresIn.
PushProject(d, u, pw) ==
  [d EXCEPT !.projects =
     Append(@, [id |-> NewProjectId(d), userId |-> u, password |-> pw,
                status |-> "active", expiresAt |-> now + 1])]

\* The ids a request can name: those of the records and unknown ones.
RecordIds == {ProjectId(i) : i \in 1..MaxRecords}

\* requireAuth: a request without a session is redirected to /login and
\* never reaches the handler.
Redirected(route) ==
  /\ res' = Response(route, 302, "/login")
  /\ UNCHANGED <<db, now, inflight>>

\* app.post('/api/projects', requireAuth, upload.single('model'), ...)
CreateProject(u, form, pw) ==
  /\ IF u = NoSession THEN Redirected("create")
     ELSE /\ UNCHANGED <<now, inflight>>
          /\ IF form = "no-file"
               THEN res' = Response("create", 400, "no-file") /\ db' = db
             ELSE IF form = "no-name"
               THEN res' = Response("create", 400, "no-name") /\ db' = db
             ELSE IF FindUser(db, u) = 0
               THEN res' = Response("create", 404, "no-user") /\ db' = db
             ELSE IF AtLimit(db, FindUser(db, u))
               THEN res' = Response("create", 400, "limit") /\ db' = db
             ELSE /\ db' = CleanupExpired(PushProject(db, u, pw), now)
                  /\ res' = Response("create", 200, "project")
  /\ Len(db'.projects) <= MaxRecords

\* An archive route that looks the project up by its id alone.
ArchiveAnyProject(u, id) ==
  IF u = NoSession THEN Redirected("archive")
  ELSE LET i == FindProject(db, id) IN
       /\ UNCHANGED <<now, inflight>>
       /\ IF i = 0
            THEN res' = Response("archive", 404, "no-project") /\ db' = db
            ELSE /\ db' = SetStatus(db, i, "archived")
                 /\ res' = Response("archive", 200, "success")

\* app.post('/api/projects/:projectId/archive', requireAuth, ...)
ArchiveProject(u, id) ==
  IF u = NoSession THEN Redirected("archive")
  ELSE LET i == FindProject(db, id) IN
       /\ UNCHANGED <<now, inflight>>
       /\ IF i = 0 \/ db.projects[i].userId # u
            THEN res' = Response("archive", 404, "no-project") /\ db' = db
            ELSE /\ db' = SetStatus(db, i, "archived")
                 /\ res' = Response("archive", 200, "success")

\* app.get('/api/view/:projectId', ...): the 200 body is the model data of
\* the project (modelUrl, projectName, ...).
ViewProject(id, pw) ==
  LET i == FindProject(db, id) IN
  /\ UNCHANGED <<now, inflight>>
  /\ IF i = 0
       THEN res' = Response("view", 404, "no-project") /\ db' = db
     ELSE IF db.projects[i].status # "active"
       THEN res' = Response("view", 410, "not-active") /\ db' = db
     ELSE IF now > db.projects[i].expiresAt
       THEN /\ db' = SetStatus(db, i, "expired")
            /\ res' = Response("view", 410, "expired")
     ELSE IF db.projects[i].password # "" /\ db.projects[i].password # pw
       THEN res' = Response("view", 403, "wrong-password") /\ db' = db
     ELSE res' = Response("view", 200, "model") /\ db' = db

\* setInterval(cleanupExpiredProjects, ...): writeDB only if (changed).
Sweep ==
  /\ CleanupExpired(db, now) # db
  /\ db' = CleanupExpired(db, now)
  /\ UNCHANGED <<now, res, inflight>>

\* An hour passes.
Tick ==
  /\ now < MaxTime
  /\ now' = now + 1
  /\ UNCHANGED <<db, res, inflight>>

NextDb ==
  \/ \E u \in Users \cup {NoSession}, form \in Forms :
       CreateProject(u, form, "") /\ UNCHANGED relayVars
  \/ \E u \in Users \cup {NoSession}, id \in RecordIds :
       ArchiveProject(u, id) /\ UNCHANGED relayVars
  \/ \E id \in RecordIds, pw \in QueryPasswords :
       ViewProject(id, pw) /\ UNCHANGED relayVars
  \/ Sweep /\ UNCHANGED relayVars
  \/ Tick /\ UNCHANGED relayVars

SpecDb == Init /\ [][NextDb]_vars

----------------------------------------------------------------------------
(* The PostgreSQL projects module, src/modules/projects.js, behind the routes
   of src/server.js:596-636. db.projects stands for the projects table. A
   method of the module awaits each query, so requests interleave between
   the queries of createProject; SpecLink creates projects with and without
   a password. *)

\* The createProject calls under way.
Calls == BagToSet(inflight)

\* parseInt(activeCount.rows[0].count) >= 3
CountReached(d, u) == Cardinality(ActiveProjects(d, u)) >= PlanLimit

\* createProject up to the answer of SELECT COUNT(*): the call is rejected
\* (the route answers 400) or goes on to the upload.
CreateProjectQuery(u, form, pw) ==
  /\ UNCHANGED <<db, now>>
  /\ IF form = "no-name"
       THEN res' = Response("create", 400, "no-name") /\ inflight' = inflight
     ELSE IF form = "no-file"
       THEN res' = Response("create", 400, "no-file") /\ inflight' = inflight
     ELSE IF CountReached(db, u)
       THEN res' = Response("create", 400, "limit") /\ inflight' = inflight
     ELSE /\ inflight' = inflight (+) SetToBag({[user |-> u, password |-> pw]})
          /\ res' = res

\* The same, while the table and the calls under way hold at most MaxLinks
\* rows.
CreateProjectCount(u, form, pw) ==
  /\ CreateProjectQuery(u, form, pw)
  /\ BagCardinality(inflight') <= MaxInflight
  /\ Len(db.projects) + BagCardinality(inflight') <= MaxLinks

\* createProject from the INSERT on: the row is written with expires_at
\* counted from this moment, and the route answers with the project.
CreateProjectInsert(c) ==
  /\ c \in Calls
  /\ inflight' = inflight (-) SetToBag({c})
  /\ db' = PushProject(db, c.user, c.password)
  /\ res' = Response("create", 200, "project")
  /\ UNCHANGED now

\* UPDATE projects SET status = 'archived' WHERE id = $2 AND user_id = $3
ArchiveRow(d, u, id) ==
  LET i == FindProject(d, id)
  IN  IF i # 0 /\ d.projects[i].userId = u THEN SetStatus(d, i, "archived")
      ELSE d

\* archiveProject and its route: { success: true } whatever the UPDATE hit.
ArchiveProjectModule(u, id) ==
  /\ db' = ArchiveRow(db, u, id)
  /\ res' = Response("archive", 200, "success")
  /\ UNCHANGED <<now, inflight>>

\* getProjectForView(projectId, password = '') and its route, which answers
\* every thrown Error with 404.
ViewProjectModule(id, pw) ==
  LET i == FindProject(db, id)
      password == IF pw = "undefined" THEN "" ELSE pw
  IN
  /\ UNCHANGED <<now, inflight>>
  /\ IF i = 0
       THEN res' = Response("view", 404, "no-project") /\ db' = db
     ELSE IF db.projects[i].status # "active"
       THEN res' = Response("view", 404, "not-active") /\ db' = db
     ELSE IF now > db.projects[i].expiresAt
       THEN /\ db' = ArchiveRow(db, db.projects[i].userId, id)
            /\ res' = Response("view", 404, "expired")
     ELSE IF db.projects[i].password # ""
               /\ db.projects[i].password # password
       THEN res' = Response("view", 404, "wrong-password") /\ db' = db
     ELSE res' = Response("view", 200, "model") /\ db' = db

NextLink ==
  \/ \E u \in Users, form \in Forms, pw \in ProjectPasswords :
       CreateProjectCount(u, form, pw) /\ UNCHANGED relayVars
  \/ \E c \in Calls : CreateProjectInsert(c) /\ UNCHANGED relayVars
  \/ \E u \in Users, id \in RecordIds :
       ArchiveProjectModule(u, id) /\ UNCHANGED relayVars
  \/ \E id \in RecordIds, pw \in QueryPasswords :
       ViewProjectModule(id, pw) /\ UNCHANGED relayVars
  \/ Tick /\ UNCHANGED relayVars

SpecLink == Init /\ [][NextLink]_vars

(* POST /register of the JSON-file server, src/server.js:122-149. The handler
   reads the database and checks the email, awaits bcrypt.hash, and then
   pushes the user onto the object it read and writes that object: between
   the two halves other requests run. inflight holds the registrations that
   await their hash, each with the database object it read. *)

\* The addresses registrations are made with: those of the stored users and
\* a new one.
Emails == {Email(i) : i \in 1..(MaxUsers + 1)}

RegisterForms == {"ok", "missing-field"}

\* Users the file may hold: the stored ones and two registrations.
MaxStored == MaxUsers + 2

\* db.users.some(u => u.email === email)
EmailTaken(d, email) == \E i \in DOMAIN d.users : d.users[i].email = email

\* The user record of the handler; uuidv4() is an id no record of d has.
NewUser(d, email) ==
  [id |-> UserId(Len(d.users) + 1), email |-> email, plan |-> "free"]

\* POST /register up to `await bcrypt.hash(password, 10)`.
RegisterRead(email, form) ==
  /\ UNCHANGED <<db, now>>
  /\ IF form = "missing-field"
       THEN res' = Response("register", 400, "missing-field")
            /\ inflight' = inflight
     ELSE IF EmailTaken(db, email)
       THEN res' = Response("register", 400, "email-taken")
            /\ inflight' = inflight
     ELSE /\ inflight' = inflight (+) SetToBag({[email |-> email, read |-> db]})
          /\ res' = res
  /\ BagCardinality(inflight') <= MaxInflight
  /\ Len(db.users) + BagCardinality(inflight') <= MaxStored

\* A registration that re-read the file before pushing its user.
RegisteredOnCurrent(c, d) ==
  [d EXCEPT !.users = Append(@, NewUser(d, c.email))]

\* db.users.push(user), db being the object read before the hash.
Registered(c, d) ==
  [c.read EXCEPT !.users = Append(@, NewUser(c.read, c.email))]

\* POST /register from the resolved hash on: writeDB(db) and the answer.
RegisterWrite(c) ==
  /\ c \in Calls
  /\ inflight' = inflight (-) SetToBag({c})
  /\ db' = Registered(c, db)
  /\ res' = Response("register", 200, "/dashboard")
  /\ UNCHANGED now

\* req.session.userId of a request: the id of a stored user (set by
\* POST /register and POST /login), or none.
Sessions(d) == {d.users[i].id : i \in DOMAIN d.users} \cup {NoSession}

NextRegister ==
  \/ \E email \in Emails, form \in RegisterForms :
       RegisterRead(email, form) /\ UNCHANGED relayVars
  \/ \E c \in Calls : RegisterWrite(c) /\ UNCHANGED relayVars
  \/ \E u \in Users, form \in Forms :
       /\ CreateProject(u, form, "")
       /\ Len(db'.projects) <= MaxLinks
       /\ UNCHANGED relayVars
  \/ \E u \in Sessions(db), id \in RecordIds :
       ArchiveProject(u, id) /\ UNCHANGED relayVars

SpecRegister == Init /\ [][NextRegister]_vars

(* Concurrent createProject calls against the free plan's limit: projects
   without a password, and a table of up to MaxRecords rows, one more than
   the limit. *)

\* createProject up to the answer of SELECT COUNT(*), while the table and
\* the calls under way hold at most MaxRecords rows.
CreateProjectCountRows(u, form) ==
  /\ CreateProjectQuery(u, form, "")
  /\ BagCardinality(inflight') <= MaxInflight
  /\ Len(db.projects) + BagCardinality(inflight') <= MaxRecords

NextRows ==
  \/ \E u \in Users, form \in Forms :
       CreateProjectCountRows(u, form) /\ UNCHANGED relayVars
  \/ \E c \in Calls : CreateProjectInsert(c) /\ UNCHANGED relayVars
  \/ \E u \in Users, id \in RecordIds :
       ArchiveProjectModule(u, id) /\ UNCHANGED relayVars

SpecRows == Init /\ [][NextRows]_vars

----------------------------------------------------------------------------
(* The portfolio-card server, src/unnamed/part_004:264-397. It keeps its
   cards in db.portfolio, each with its owner, its items and its folders.
   The card routes never read db.users: the session's userId is all they
   use. The upload routes run portfolioUpload.single('file') (multer) before
   the handler; the files multer writes to uploads/portfolio are not part of
   db and are left out. *)

CardId(i) == <<"card1", "card2", "card3", "card4">>[i]

\* The ids a card request can name: those cards can have and an unknown one.
CardIds == {CardId(i) : i \in 1..(MaxCards + 1)}

\* req.session.userId of a request of a logged-in user to the card server.
CardUsers == {UserId(i) : i \in 1..(MaxUsers + 1)}

\* The folder a request names, by its place in the card; the last one is
\* never there.
FolderIds == 1..(MaxContent + 1)

\* The upload of a request: a file multer accepts, none, or one its
\* fileFilter rejects.
UploadForms == {"ok", "no-file", "bad-type"}

\* The body of a create-card or create-folder request: with or without the
\* title / name.
NameForms == {"ok", "no-name"}

\* db.portfolio.find(c => c.id === cardId): the index, 0 for undefined.
FindCard(d, id) ==
  IF \E i \in DOMAIN d.portfolio : d.portfolio[i].id = id
    THEN CHOOSE i \in DOMAIN d.portfolio : d.portfolio[i].id = id
    ELSE 0

\* A lookup of the card that does not look at its owner.
FindAnyOwnersCard(d, id, u) == FindCard(d, id)

\* db.portfolio.find(c => c.id === cardId && c.userId === session.userId)
FindOwnCard(d, id, u) ==
  LET i == FindCard(d, id)
  IN  IF i # 0 /\ d.portfolio[i].userId = u THEN i ELSE 0

\* uuidv4(): an id no card of d has.
NewCardId(d) ==
  CardId(CHOOSE i \in 1..(Len(d.portfolio) + 1) :
           /\ FindCard(d, CardId(i)) = 0
           /\ \A j \in 1..(i - 1) : FindCard(d, CardId(j)) # 0)

\* The item the upload handlers build from req.file.
Item == [type |-> "image"]

\* db.portfolio.splice(index, 1)
Splice(seq, i) == [k \in 1..(Len(seq) - 1) |-> IF k < i THEN seq[k] ELSE seq[k + 1]]

\* What a handler leaves behind: the database file and the answer.
Outcome(d, route, code, body) == [db |-> d, res |-> Response(route, code, body)]

\* requireAuth of the card server: no session, no handler.
NoHandler(d, route) == Outcome(d, route, 302, "/login")

\* multer's default error path: Express answers 500.
UploadRejected(d, route) == Outcome(d, route, 500, "upload-error")

\* The request is handled: the file is written and the answer sent.
Answered(o) ==
  /\ db' = o.db
  /\ res' = o.res
  /\ UNCHANGED <<now, inflight>>

\* app.post('/api/portfolio/card', requireAuth, ...)
CreateCard(d, u, form) ==
  IF u = NoSession THEN NoHandler(d, "card-create")
  ELSE IF form = "no-name" THEN Outcome(d, "card-create", 400, "no-title")
  ELSE Outcome([d EXCEPT !.portfolio =
                  Append(@, [id |-> NewCardId(d), userId |-> u,
                             items |-> << >>, folders |-> << >>])],
               "card-create", 200, "card")

\* app.post('/api/portfolio/card/:cardId/upload', requireAuth,
\*          portfolioUpload.single('file'), ...)
UploadToCard(d, u, id, form) ==
  LET i == FindOwnCard(d, id, u) IN
  IF u = NoSession THEN NoHandler(d, "card-upload")
  ELSE IF form = "bad-type" THEN UploadRejected(d, "card-upload")
  ELSE IF form = "no-file" THEN Outcome(d, "card-upload", 400, "no-file")
  ELSE IF i = 0 THEN Outcome(d, "card-upload", 404, "no-card")
  ELSE Outcome([d EXCEPT !.portfolio[i].items = Append(@, Item)],
               "card-upload", 200, "item")

\* app.post('/api/portfolio/card/:cardId/folder', requireAuth, ...)
CreateFolder(d, u, id, form) ==
  LET i == FindOwnCard(d, id, u) IN
  IF u = NoSession THEN NoHandler(d, "card-folder")
  ELSE IF form = "no-name" THEN Outcome(d, "card-folder", 400, "no-name")
  ELSE IF i = 0 THEN Outcome(d, "card-folder", 404, "no-card")
  ELSE Outcome([d EXCEPT !.portfolio[i].folders = Append(@, [items |-> << >>])],
               "card-folder", 200, "folder")

\* app.post('/api/portfolio/card/:cardId/folder/:folderId/upload', ...)
UploadToFolder(d, u, id, f, form) ==
  LET i == FindOwnCard(d, id, u) IN
  IF u = NoSession THEN NoHandler(d, "folder-upload")
  ELSE IF form = "bad-type" THEN UploadRejected(d, "folder-upload")
  ELSE IF form = "no-file" THEN Outcome(d, "folder-upload", 400, "no-file")
  ELSE IF i = 0 THEN Outcome(d, "folder-upload", 404, "no-card")
  ELSE IF f \notin DOMAIN d.portfolio[i].folders
    THEN Outcome(d, "folder-upload", 404, "no-folder")
  ELSE Outcome([d EXCEPT !.portfolio[i].folders[f].items = Append(@, Item)],
               "folder-upload", 200, "item")

\* app.delete('/api/portfolio/card/:cardId', requireAuth, ...)
DeleteCard(d, u, id) ==
  LET i == FindOwnCard(d, id, u) IN
  IF u = NoSession THEN NoHandler(d, "card-delete")
  ELSE IF i = 0 THEN Outcome(d, "card-delete", 404, "no-card")
  ELSE Outcome([d EXCEPT !.portfolio = Splice(@, i)],
               "card-delete", 200, "success")

\* app.get('/api/portfolio/card/:cardId', ...): no requireAuth; the 200 body
\* is the card, named here by its id.
GetCard(d, id) ==
  IF FindCard(d, id) = 0 THEN Outcome(d, "card-get", 404, "no-card")
  ELSE Outcome(d, "card-get", 200, id)

RECURSIVE SumSeq(_)
SumSeq(ns) == IF ns = << >> THEN 0 ELSE Head(ns) + SumSeq(Tail(ns))

\* The items and folders of a card, and of all cards.
CardContent(c) ==
  Len(c.items) + Len(c.folders)
    + SumSeq([k \in DOMAIN c.folders |-> Len(c.folders[k].items)])

Content(d) == SumSeq([i \in DOMAIN d.portfolio |-> CardContent(d.portfolio[i])])

\* The portfolio stays within the bounds.
Bounded(d) == Len(d.portfolio) <= MaxCards /\ Content(d) <= MaxContent

CardSessions == CardUsers \cup {NoSession}

NextCards ==
  \/ \E u \in CardSessions, form \in NameForms :
       Answered(CreateCard(db, u, form)) /\ Bounded(db') /\ UNCHANGED relayVars
  \/ \E u \in CardSessions, id \in CardIds, form \in UploadForms :
       /\ Answered(UploadToCard(db, u, id, form))
       /\ Bounded(db') /\ UNCHANGED relayVars
  \/ \E u \in CardSessions, id \in CardIds, form \in NameForms :
       /\ Answered(CreateFolder(db, u, id, form))
       /\ Bounded(db') /\ UNCHANGED relayVars
  \/ \E u \in CardSessions, id \in CardIds, f \in FolderIds,
         form \in UploadForms :
       /\ Answered(UploadToFolder(db, u, id, f, form))
       /\ Bounded(db') /\ UNCHANGED relayVars
  \/ \E u \in CardSessions, id \in CardIds :
       Answered(DeleteCard(db, u, id)) /\ UNCHANGED relayVars
  \/ \E id \in CardIds : Answered(GetCard(db, id)) /\ UNCHANGED relayVars

SpecCards == Init /\ [][NextCards]_vars

TypeOK ==
  /\ status \in [Sockets -> {"none", "connected", "disconnected"}]
  /\ rooms \in [AdapterRooms -> SUBSET Sockets]
  /\ DOMAIN activeRooms \subseteq RoomIds
  /\ \A p \in DOMAIN activeRooms : activeRooms[p] \subseteq Sockets
  /\ joined \in [Sockets -> SUBSET RoomIds]
  /\ nevents \in 0..MaxEvents
  /\ up \in BOOLEAN
  /\ \A s \in Sockets : Len(inbox[s]) <= MaxEvents

----------------------------------------------------------------------------
(* Recipients of the last handled event *)

Recipients == {d.to : d \in out}

DeliveredTo(m) == {d \in out : d.to = m}

RelayOps == {"camera-update", "annotation-add"}

----------------------------------------------------------------------------
\* C1: a socket id is in the member set of room p in activeRooms if and only
\* if that connection has sent join-room(p) and has not disconnected since;
\* a disconnected connection is a member of no room.
C1_MemberIffJoinedAndLive ==
  /\ \A s \in Sockets, p \in RoomIds :
       s \in Members(p) <=> (p \in joined[s] /\ status[s] = "connected")
  /\ \A s \in Sockets :
       status[s] = "disconnected" => RoomsOf(activeRooms, s) = {}

\* A connection that had joined a room has disconnected while another
\* connection is still a member of that room.
C1_Witness ==
  \E s \in Sockets, t \in Sockets, p \in RoomIds :
    /\ status[s] = "disconnected"
    /\ p \in joined[s]
    /\ t \in Members(p)

\* C3: the connections that receive the camera-updated / annotation-added
\* event caused by a camera-update / annotation-add of connection S never
\* include S, whether or not S is a member of the named room.
C3_SenderExcluded ==
  last.op \in RelayOps => last.conn \notin Recipients

\* A member of a room has sent an update to it and another member got it.
C3_Witness ==
  /\ last.op \in RelayOps
  /\ last.wasMember
  /\ last.conn \in rooms[last.room]
  /\ Recipients # {}

----------------------------------------------------------------------------
(* Steps, recognised by what they record *)

\* The step is connection s's disconnect.
DisconnectStep(s) == status[s] = "connected" /\ status'[s] = "disconnected"

\* The step handles join-room(p) sent by s.
JoinStep(s, p) ==
  /\ nevents' = nevents + 1
  /\ last'.op = "join-room" /\ last'.conn = s /\ last'.room = p

UserLeft(m, s, p) ==
  {d \in out : d.to = m /\ d.event = "user-left" /\ d.payload.userId = s
               /\ d.room = p}

\* C2: when connection C disconnects, each remaining member of every room C
\* was a member of receives exactly one user-left carrying userId = C (for
\* that room), and a connection sharing no room with C receives none.
C2_UserLeftToRemainingMembers ==
  [][\A s \in Sockets :
       DisconnectStep(s) =>
         /\ \A p \in RoomsOf(activeRooms, s) :
              \A m \in activeRooms[p] \ {s} :
                Cardinality(UserLeft(m, s, p)') = 1
         /\ \A m \in Sockets :
              (\A p \in RoomsOf(activeRooms, s) : m \notin activeRooms[p])
                => \A p \in AdapterRooms : UserLeft(m, s, p)' = {}]_vars

\* C4: a camera-update or annotation-add naming room p is delivered to every
\* current member of p other than the sender and to no connection that is
\* not currently a member of p.
C4_DeliveredToMembersOnly ==
  last.op \in RelayOps => Recipients = Members(last.room) \ {last.conn}

\* C5: join-room(p) by J delivers exactly one user-joined with userId = J to
\* each member of p other than J and nothing to J or to non-members (so
\* nothing at all when p had no member), and registers J, so that the next
\* join of p is announced to J.
C5_UserJoinedToMembersOnly ==
  last.op = "join-room" =>
    /\ last.conn \in Members(last.room)
    /\ Recipients = Members(last.room) \ {last.conn}
    /\ \A m \in Recipients : Cardinality(DeliveredTo(m)) = 1
    /\ \A d \in out : d.event = "user-joined" /\ d.payload.userId = last.conn

\* C6: however often a connection sends join-room(p), the member set of p
\* holds it once, and a repeated join leaves the registry as the first join
\* left it.
C6_JoinIdempotent ==
  [][LET s == last'.conn
         p == last'.room
     IN  (nevents' = nevents + 1 /\ last'.op = "join-room") =>
           /\ s \in activeRooms'[p]
           /\ s \in Members(p) => activeRooms' = activeRooms
           /\ s \notin Members(p) =>
                /\ activeRooms'[p] = Members(p) \cup {s}
                /\ \A q \in RoomIds \ {p} : Members(q)' = Members(q)]_vars

\* A member of a room that has another member has joined it again.
C6_Witness ==
  /\ last.op = "join-room"
  /\ last.wasMember
  /\ Members(last.room) \ {last.conn} # {}

\* C7: a join-room(p) by a connection that is already a member of p changes
\* nothing and delivers no event to any connection.
C7_DuplicateJoinIsNoOp ==
  [][\A s \in Sockets, p \in RoomIds :
       (JoinStep(s, p) /\ s \in Members(p)) =>
         /\ activeRooms' = activeRooms
         /\ rooms' = rooms
         /\ out' = {}]_vars

\* C8: a room id is a key of activeRooms if and only if its member set is
\* not empty: the first join creates it, the disconnect of its last member
\* removes it.
C8_RoomKeyIffNonEmpty ==
  /\ \A p \in DOMAIN activeRooms : activeRooms[p] # {}
  /\ \A p \in RoomIds :
       p \in DOMAIN activeRooms
         <=> \E s \in Sockets : p \in joined[s] /\ status[s] = "connected"

\* The last member of a room has disconnected and the room is gone, while
\* another room is still there.
C8_Witness ==
  /\ last.op = "disconnect"
  /\ \E p \in joined[last.conn] : p \notin DOMAIN activeRooms
  /\ DOMAIN activeRooms # {}

\* C9: the disconnect of a connection that never joined a room leaves
\* activeRooms unchanged and delivers no event.
C9_DisconnectWithoutJoin ==
  [][\A s \in Sockets :
       (DisconnectStep(s) /\ joined[s] = {}) =>
         /\ activeRooms' = activeRooms
         /\ out' = {}]_vars

\* A connection that never joined has disconnected while rooms with members
\* exist, one of them the room named by its own id.
C9_Witness ==
  /\ last.op = "disconnect"
  /\ joined[last.conn] = {}
  /\ last.conn \in DOMAIN activeRooms

----------------------------------------------------------------------------
\* C11: every delivered camera-updated carries the socket id of the sender
\* of the camera-update as userId, whatever the payload holds, a userId key
\* included.
C11_UserIdIsSender ==
  \A d \in out : d.event = "camera-updated" => d.payload.userId = last.conn


\* The step handles a camera-update or annotation-add without throwing.
RelayStep == nevents' = nevents + 1 /\ last'.op \in RelayOps /\ up'

\* C12: a delivered camera-updated carries the position and rotation of the
\* camera-update that caused it, a delivered annotation-added the annotation
\* sent, and the handler leaves the relay's state as it was.
C12_PayloadRelayedVerbatim ==
  [][RelayStep =>
       /\ \A d \in out' :
            IF last'.op = "camera-update"
              THEN /\ d.event = "camera-updated"
                   /\ d.payload.position = Get(last'.data, "position")
                   /\ d.payload.rotation = Get(last'.data, "rotation")
              ELSE /\ d.event = "annotation-added"
                   /\ d.payload.annotation = Get(last'.data, "annotation")
       /\ UNCHANGED <<status, rooms, activeRooms>>]_vars

\* A camera-update reached another connection.
C12_Witness ==
  /\ last.op = "camera-update"
  /\ up
  /\ \E d \in out : d.payload.position = "pos2"


\* C13: a camera-update or annotation-add naming room p, sent by a
\* connection that never joined p, is delivered to all current members of p;
\* it neither adds the sender to p's member set nor creates p.
C13_RelayWithoutJoin ==
  [][LET s == last'.conn
         p == last'.room
     IN  (RelayStep /\ p \in RoomIds /\ p \notin joined[s]) =>
           /\ Members(p) \subseteq {d.to : d \in out'}
           /\ activeRooms' = activeRooms
           /\ s \notin Members(p)]_vars

\* A connection that joined no room has sent an update to a room with
\* members.
C13_Witness ==
  /\ last.op \in RelayOps
  /\ up
  /\ joined[last.conn] = {}
  /\ Members(last.room) # {}
  /\ Members(last.room) \subseteq Recipients


\* C14: a connection is a member of at most one room: no two room ids have
\* member sets that both hold the same socket id.
C14_AtMostOneRoom ==
  \A s \in Sockets : Cardinality(RoomsOf(activeRooms, s)) <= 1


\* C15: a connection that joins room p has been sent no camera-updated or
\* annotation-added of room p by then, and is sent none by joining: whatever
\* the relay handled before the join never reaches the joiner.
C15_NothingFromBeforeJoin ==
  [][LET s == last'.conn  p == last'.room
     IN  (JoinStep(s, p) /\ p \notin joined[s]) =>
           \A i \in DOMAIN inbox'[s] : inbox'[s][i].room # p]_vars


\* Two relayed events in m's buffer, the first at i and the second at j, that
\* the same sender emitted naming the same room.
SameSenderAndRoom(m, i, j) ==
  /\ i < j
  /\ inbox[m][i].from = inbox[m][j].from
  /\ inbox[m][i].room = inbox[m][j].room

Malformed(data) == "projectId" \notin DOMAIN data

\* C17: a camera-update or annotation-add whose payload is missing or has no
\* projectId is dropped silently: nothing is delivered, the relay goes on
\* running (no error reaches the sender) and activeRooms is unchanged.
C17_MalformedDroppedSilently ==
  [][(nevents' = nevents + 1 /\ last'.op \in RelayOps
        /\ Malformed(last'.data)) =>
       /\ out' = {}
       /\ up'
       /\ activeRooms' = activeRooms]_vars


\* C18: whatever event a connection sends, well formed or not, the relay is
\* still running afterwards and goes on handling the events of the other
\* connections: a failure stays with the connection that caused it.
C18_RelaySurvivesEveryEvent ==
  last.op \in {"join-room", "camera-update", "annotation-add", "disconnect"}
    => up


C19_ViewAnswers ==
  [][\A id \in RecordIds, pw \in QueryPasswords :
       (ViewProject(id, pw) \/ ViewProjectModule(id, pw)) =>
         LET i == FindProject(db, id)
             live == db.projects[i].status = "active"
                       /\ ~(now > db.projects[i].expiresAt)
             admitted == db.projects[i].password = ""
                           \/ db.projects[i].password = pw
         IN  /\ res'.status \in {200, 404, 410, 403}
             /\ res'.status = 200 <=> (i # 0 /\ live /\ admitted)
             /\ res'.body = "model" <=> res'.status = 200
             /\ res'.status = 404 <=> i = 0
             /\ res'.status = 410 => ~live
             /\ res'.status = 403 => ~admitted]_vars


\* C21: in the PostgreSQL projects module, however concurrent createProject
\* calls of one user interleave (count query, upload and INSERT are separate
\* awaited steps), the user never has more than 3 projects with status
\* 'active'.
C21_ActiveNeverAboveLimit ==
  \A u \in Users : Cardinality(ActiveProjects(db, u)) <= PlanLimit


\* C22: in the JSON-file server, however concurrent POST /register requests
\* interleave around the awaited password hash, the stored users list never
\* holds two records with the same email.
C22_NoDuplicateEmail ==
  \A i, j \in DOMAIN db.users :
    db.users[i].email = db.users[j].email => i = j

\* A registration was answered with success while another one for the same
\* address, which passed the duplicate check before it, still awaits its
\* hash.
C22_Witness ==
  /\ res = Response("register", 200, "/dashboard")
  /\ \E c \in Calls : EmailTaken(db, c.email) /\ ~EmailTaken(c.read, c.email)

\* C23: in the JSON-file server no write is lost to another request: every
\* user and project record in the database file is still there after any
\* step of a register, create-project or archive request.
C23_NoLostWrite ==
  [][db' # db =>
       /\ \A i \in DOMAIN db.users :
            \E j \in DOMAIN db'.users : db'.users[j] = db.users[i]
       /\ \A i \in DOMAIN db.projects :
            \E j \in DOMAIN db'.projects :
              db'.projects[j].id = db.projects[i].id]_vars


Overdue(p, t) == p.status = "active" /\ p.expiresAt < t

\* C25: cleanupExpiredProjects sets status to 'expired' for exactly the
\* projects that are 'active' with expiresAt earlier than the current time,
\* leaves every other project and every user record as it was, and writes
\* the database only when at least one project changed.
C25_SweepFrame ==
  [][LET d == CleanupExpired(db, now)
     IN  /\ d.users = db.users
         /\ DOMAIN d.projects = DOMAIN db.projects
         /\ \A i \in DOMAIN db.projects :
              IF Overdue(db.projects[i], now)
                THEN d.projects[i] =
                       [db.projects[i] EXCEPT !.status = "expired"]
                ELSE d.projects[i] = db.projects[i]
         /\ (res' = res /\ now' = now /\ Sweep) =>
              \E i \in DOMAIN db.projects :
                db'.projects[i] # db.projects[i]]_vars

\* The sweep has a project to expire while the database also holds an
\* archived project that is overdue, an expired one and an active one that
\* is not yet due.
C25_Witness ==
  /\ CleanupExpired(db, now) # db
  /\ \E i, j, k \in DOMAIN db.projects :
       /\ db.projects[i].status = "archived" /\ db.projects[i].expiresAt < now
       /\ db.projects[j].status = "expired"
       /\ db.projects[k].status = "active" /\ db.projects[k].expiresAt = now


\* C26: POST /api/projects/:projectId/archive changes a project's status
\* only when the session user owns the project: a request of another
\* authenticated user, or for an unknown id, is answered 404 and leaves
\* every project record as it was; a request without a session is
\* redirected by requireAuth and changes nothing.
C26_ArchiveByOwnerOnly ==
  [][(res'.route = "archive" /\ (res' # res \/ db' # db)) =>
       \A u \in Sessions(db), id \in RecordIds :
         ArchiveProject(u, id) =>
           LET i == FindProject(db, id)
               owner == i # 0 /\ db.projects[i].userId = u
           IN  /\ u = NoSession => res'.status = 302 /\ db' = db
               /\ (u # NoSession /\ ~owner) =>
                    res'.status = 404 /\ db'.projects = db.projects
               /\ owner =>
                    /\ res'.status = 200
                    /\ db' = [db EXCEPT !.projects[i].status = "archived"]]_vars

\* An archive request was answered 404 while the database holds a second,
\* registered user and a project of the first that is still active: no
\* request the second user made for it has changed it.
C26_Witness ==
  /\ res = Response("archive", 404, "no-project")
  /\ Len(db.users) > MaxUsers
  /\ \E i \in DOMAIN db.projects : db.projects[i].status = "active"


\* C27: the two membership books of the relay agree: for every room id p
\* the member set activeRooms records for p is the set of live connections
\* the transport holds in room p, so a broadcast to p by S reaches exactly
\* activeRooms[p] minus S.
C27_BooksAgree ==
  /\ \A p \in RoomIds :
       Members(p) = {s \in rooms[p] : status[s] = "connected"}
  /\ (last.op \in RelayOps /\ up) =>
       Recipients = Members(last.room) \ {last.conn}


\* The outcomes of the four card-changing requests of user u naming card id
\* (and folder f) in the state reached, one per upload or body form.
ChangeOutcomes(u, id, uform, nform) ==
  {UploadToCard(db, u, id, uform), CreateFolder(db, u, id, nform),
   DeleteCard(db, u, id)}
    \cup {UploadToFolder(db, u, id, f, uform) : f \in FolderIds}

\* u is the owner of an existing card id.
Owns(u, id) == FindCard(db, id) # 0 /\ db.portfolio[FindCard(db, id)].userId = u

\* The portfolio is d's but for the card at index i.
OnlyCardChanged(d, i) ==
  /\ db.users = d.users /\ db.projects = d.projects
  /\ \/ /\ Len(d.portfolio) = Len(db.portfolio)
        /\ \A k \in DOMAIN db.portfolio :
             /\ k # i => d.portfolio[k] = db.portfolio[k]
             /\ d.portfolio[k].id = db.portfolio[k].id
             /\ d.portfolio[k].userId = db.portfolio[k].userId
     \/ d.portfolio = Splice(db.portfolio, i)

\* Every requester reads every existing card without a session.
CardsArePublic ==
  \A id \in CardIds :
    LET o == GetCard(db, id)
    IN  /\ o.db = db
        /\ IF FindCard(db, id) # 0
             THEN o.res.status = 200 /\ o.res.body = id
             ELSE o.res.status = 404

====
